---- MODULE Spec2Model ----
(***************************************************************************)
(* RevoluteJoint<T> of drake/multibody/multibody_tree/joints: a joint that *)
(* is declared while its MultibodyTree is assembled, bound to one          *)
(* RevoluteMobilizer when the tree is finalized, and that reads and writes *)
(* the angle, the angular rate and the generalized force of its single     *)
(* degree of freedom in containers supplied by the caller.                 *)
(*                                                                         *)
(* Numbers.  A Vector3<double> is a triple of coefficients of one scale.   *)
(* On the scale "step" lengths are counted in grid steps of one half of    *)
(* kEpsilon, 1.0 is One steps, and a finite coefficient has the value      *)
(* num[i] / sqrt(den2) steps, so that the quotient of a vector by its norm *)
(* has a value for every axis; of the pairs num, den2 that denote one      *)
(* vector a Vector3 is the one of least terms.  On the scale "large" a     *)
(* finite coefficient is num[i] * 2^510, so that squares and their sums    *)
(* reach the largest finite double, a little less than 2^1024; on the      *)
(* scale "tiny" it is num[i] * 2^-540 with |num[i]| at most 5, so that its *)
(* square is 0 in doubles.  A coefficient can also be of class inf or nan, *)
(* of the sign num[i].  Vectors that mix the scales, the roundings of      *)
(* double arithmetic on the scale "step" and the sign of a zero are not    *)
(* modelled.  Angles, rates and torques (scalar T) are integers.           *)
(*                                                                         *)
(* Failures.  Every failure of the code is a DRAKE_DEMAND that aborts the  *)
(* call.  A failed call is a step that records the failed demand in        *)
(* last.error and has no other effect than the writes the code made before *)
(* the demand.                                                             *)
(***************************************************************************)
EXTENDS Integers, Sequences, FiniteSets, TLC

VARIABLES
  trees,      \* tree id -> [frames, joints, finalized]: the MultibodyTrees
  contexts,   \* context id -> [q, v]: the State Containers of the callers
  forces,     \* forces id -> [tau]: the Force Accumulators of the callers
  applied,    \* forces id -> the torques added since the accumulator was zeroed
  last        \* the last call: operation, arguments, returned value, failure

vars == <<trees, contexts, forces, applied, last>>

----------------------------------------------------------------------------
(* Bounds of the model *)

\* Joints one tree holds at most.
MaxJoints == 2
\* AddInTorque calls one accumulator takes before it is zeroed again.
MaxCalls == 2

(* Program constants *)

\* std::numeric_limits<double>::epsilon(), in grid steps.
kEpsilon == 2
\* 1.0 in grid steps.
One == 15 * kEpsilon

Abs(x) == IF x < 0 THEN -x ELSE x

\* The squared norm, counted in 2^1020, from which a double is infinite:
\* 2^1024.
SquareOverflow == 16

\* Vector3<double>(x, y, z) of finite coefficients given in grid steps.
Vector3(x, y, z) ==
  [class |-> <<"finite", "finite", "finite">>, num |-> <<x, y, z>>, den2 |-> 1,
   scale |-> "step"]

\* Vector3<double>(x, y, z) of finite coefficients given in 2^510, and in
\* 2^-540.
Large(x, y, z) == [Vector3(x, y, z) EXCEPT !.scale = "large"]

Tiny(x, y, z) == [Vector3(x, y, z) EXCEPT !.scale = "tiny"]

\* The vector v with coefficient i replaced by one of class c, "inf" or
\* "nan", and of the sign s.
WithCoefficient(v, i, c, s) == [v EXCEPT !.class[i] = c, !.num[i] = s]

IsFinite(v) == \A i \in 1..3 : v.class[i] = "finite"

RECURSIVE GCD(_, _)
GCD(a, b) == IF b = 0 THEN a ELSE GCD(b, a % b)

\* The finite vector num / sqrt(den2) in least terms: no k > 1 divides every
\* coefficient of num while k * k divides den2.
Reduced(num, den2) ==
  LET g == GCD(GCD(Abs(num[1]), Abs(num[2])), Abs(num[3]))
      Common(k) == g % k = 0 /\ k <= den2 \div k /\ den2 % (k * k) = 0
      common == {c \in 1..(IF g = 0 THEN 1 ELSE g) : Common(c)}
      k == CHOOSE c \in common : \A d \in common : d <= c
  IN  [class |-> <<"finite", "finite", "finite">>,
       num |-> [i \in 1..3 |-> (Abs(num[i]) \div k) * (IF num[i] < 0 THEN -1 ELSE 1)],
       den2 |-> den2 \div (k * k), scale |-> "step"]

\* The integer vector num divided by the greatest common divisor of its
\* coefficients: the shortest integer vector of its direction.
Primitive(num) ==
  LET g == GCD(GCD(Abs(num[1]), Abs(num[2])), Abs(num[3]))
  IN  [i \in 1..3 |-> (Abs(num[i]) \div g) * (IF num[i] < 0 THEN -1 ELSE 1)]

\* Eigen's MatrixBase::squaredNorm(), a double of the scale of v squared:
\* nan when a coefficient is nan; inf when a coefficient is infinite, and
\* when the sum of the squares is 2^1024 or more, which large coefficients
\* reach; 0 when the coefficients are tiny, each square being 0; the sum
\* of the squares, num / den2, otherwise.
squaredNorm(v) ==
  LET sum == v.num[1] * v.num[1] + v.num[2] * v.num[2] + v.num[3] * v.num[3] IN
  IF \E i \in 1..3 : v.class[i] = "nan"
  THEN [class |-> "nan", num |-> 0, den2 |-> 1]
  ELSE IF ~IsFinite(v) \/ (v.scale = "large" /\ sum >= SquareOverflow)
  THEN [class |-> "inf", num |-> 1, den2 |-> 1]
  ELSE IF v.scale = "tiny"
  THEN [class |-> "finite", num |-> 0, den2 |-> 1]
  ELSE [class |-> "finite", num |-> sum, den2 |-> v.den2]

\* Eigen's DenseBase::isZero(prec), prec given in steps: every coefficient
\* c has |c| <= prec * 1, which every tiny coefficient has, of the large
\* ones only 0, and no infinite coefficient and no nan; on the scale
\* "step" it is num[i]^2 <= prec^2 * den2.
isZero(v, prec) ==
  \A i \in 1..3 :
    /\ v.class[i] = "finite"
    /\ CASE v.scale = "tiny" -> TRUE
         [] v.scale = "large" -> v.num[i] = 0
         [] OTHER -> v.num[i] * v.num[i] <= prec * prec * v.den2

\* Eigen's MatrixBase::normalized(): with z = squaredNorm(), the vector
\* divided by sqrt(z) when z > 0, and the vector itself otherwise, which is
\* when z is 0 or nan.  Divided by an infinite sqrt(z) a finite coefficient
\* is 0 and an infinite one is nan.  The quotient of the finite
\* num / sqrt(den2) by sqrt(z.num / den2) is num / sqrt(z.num) on every
\* scale, which is p / sqrt(p.p) for the shortest integer vector p of the
\* direction of num, and is of length 1.0 = One steps.
normalized(v) ==
  LET z == squaredNorm(v) IN
  IF z.class = "nan" \/ (z.class = "finite" /\ z.num = 0)
  THEN v
  ELSE IF z.class = "inf"
  THEN [class |-> [i \in 1..3 |-> IF v.class[i] = "inf" THEN "nan" ELSE "finite"],
        num |-> <<0, 0, 0>>, den2 |-> 1, scale |-> "step"]
  ELSE LET p == Primitive(v.num)
       IN  Reduced([i \in 1..3 |-> One * p[i]],
                   p[1] * p[1] + p[2] * p[2] + p[3] * p[3])

----------------------------------------------------------------------------
(* Values the callers supply *)

FrameNames == {"world", "thigh", "shin", "foot"}

ZeroVector == Vector3(0, 0, 0)

\* Arguments of the constructor calls.  Axes along a coordinate axis, shorter
\* and longer than 1.0 and of length 1.0; axes whose norm is a whole number
\* of steps and is not; large axes whose squared norm is finite, as
\* 2^511 * (1, 1, 1), and is not, as (2^512, 0, 0), 2^512 * (0, -1, 1) and
\* 1.5 * 2^511 * (1, 1, 0); an axis with an infinite coefficient and one
\* with a nan.  The last four axes are rejected: the zero vector, a tiny
\* vector, a vector shorter than kEpsilon, and a vector longer than kEpsilon
\* whose coefficients are all within kEpsilon.
JointArgs ==
  { [name |-> "hip",   parent |-> "world", child |-> "thigh", axis |-> Vector3(0, 0, 3)],
    [name |-> "hip",   parent |-> "world", child |-> "thigh", axis |-> Vector3(0, 0, One)],
    [name |-> "hip",   parent |-> "world", child |-> "thigh", axis |-> Vector3(3, 3, 0)],
    [name |-> "hip",   parent |-> "world", child |-> "thigh", axis |-> Vector3(0, -3 * One, 0)],
    [name |-> "hip",   parent |-> "world", child |-> "thigh", axis |-> Large(4, 0, 0)],
    [name |-> "hip",   parent |-> "world", child |-> "thigh", axis |-> Large(2, 2, 2)],
    [name |-> "hip",   parent |-> "world", child |-> "thigh",
     axis |-> WithCoefficient(ZeroVector, 1, "nan", 1)],
    [name |-> "knee",  parent |-> "thigh", child |-> "shin",  axis |-> Vector3(9, 0, 12)],
    [name |-> "knee",  parent |-> "thigh", child |-> "shin",  axis |-> Vector3(1, 0, 3)],
    [name |-> "knee",  parent |-> "thigh", child |-> "shin",  axis |-> Large(3, 3, 0)],
    [name |-> "knee",  parent |-> "thigh", child |-> "shin",
     axis |-> WithCoefficient(Vector3(0, 0, 1), 1, "inf", -1)],
    [name |-> "ankle", parent |-> "shin",  child |-> "foot",  axis |-> Vector3(0, -121, 0)],
    [name |-> "ankle", parent |-> "shin",  child |-> "foot",  axis |-> Vector3(2, 2, 3)],
    [name |-> "ankle", parent |-> "shin",  child |-> "foot",  axis |-> Large(0, -4, 4)],
    [name |-> "hip",   parent |-> "world", child |-> "thigh", axis |-> ZeroVector],
    [name |-> "hip",   parent |-> "world", child |-> "thigh", axis |-> Tiny(5, 0, 0)],
    [name |-> "knee",  parent |-> "thigh", child |-> "shin",  axis |-> Vector3(1, -1, 1)],
    [name |-> "knee",  parent |-> "thigh", child |-> "shin",  axis |-> Vector3(2, -2, 2)] }

\* Angles and rates written by set_angle and set_angular_rate.
Values == {-1, 0, 7}

\* Torques passed to AddInTorque.
Torques == {-1, 2}

NoError == "none"

----------------------------------------------------------------------------
(* Joint<T> and RevoluteJoint<T> *)

NoImplementation == [present |-> FALSE, mobilizers_ |-> <<>>]

NoJoint ==
  [name |-> "", frame_on_parent |-> "", frame_on_child |-> "",
   axis_ |-> ZeroVector, implementation_ |-> NoImplementation]

NoMobilizer ==
  [type |-> "", F |-> "", M |-> "", axis |-> ZeroVector,
   start |-> 0, tree_dofs |-> 0]

\* RevoluteJoint(name, frame_on_parent, frame_on_child, axis): the joint has
\* no implementation yet; the axis is demanded not to be zero and is stored
\* normalized.
RevoluteJoint(name, frame_on_parent, frame_on_child, axis) ==
  IF isZero(axis, kEpsilon)
  THEN [error |-> "degenerate_axis", joint |-> NoJoint]
  ELSE [error |-> NoError,
        joint |-> [name |-> name, frame_on_parent |-> frame_on_parent,
                   frame_on_child |-> frame_on_child, axis_ |-> normalized(axis),
                   implementation_ |-> NoImplementation]]

get_revolute_axis(joint) == joint.axis_

do_get_num_dofs(joint) == 1

\* A mutation of MakeImplementationBlueprint that lists the mobilizer twice.
MakeImplementationBlueprint_twice(joint) ==
  LET m == [type |-> "RevoluteMobilizer", F |-> joint.frame_on_parent,
            M |-> joint.frame_on_child, axis |-> joint.axis_,
            start |-> 0, tree_dofs |-> 0]
  IN [mobilizers_ |-> <<m, m>>]

\* A mutation of MakeImplementationBlueprint that swaps the two frames.
MakeImplementationBlueprint_swapped(joint) ==
  [mobilizers_ |->
     << [type |-> "RevoluteMobilizer", F |-> joint.frame_on_child,
         M |-> joint.frame_on_parent, axis |-> joint.axis_,
         start |-> 0, tree_dofs |-> 0] >>]

\* MakeImplementationBlueprint(): a new BluePrint holding one
\* RevoluteMobilizer made of the joint's two frames and axis.  The
\* mobilizer's place in the tree (start, tree_dofs) is set at Finalize.
MakeImplementationBlueprint(joint) ==
  [mobilizers_ |->
     << [type |-> "RevoluteMobilizer", F |-> joint.frame_on_parent,
         M |-> joint.frame_on_child, axis |-> joint.axis_,
         start |-> 0, tree_dofs |-> 0] >>]

\* Joint::get_implementation(): the joint's implementation, which exists
\* once the tree is finalized.
get_implementation(joint) ==
  IF joint.implementation_.present
  THEN [error |-> NoError, implementation |-> joint.implementation_]
  ELSE [error |-> "unbound_access", implementation |-> NoImplementation]

\* A mutation of get_mobilizer that demands nothing and falls back on a
\* mobilizer at offset zero.
get_mobilizer_unchecked(joint) ==
  IF Len(joint.implementation_.mobilizers_) >= 1
  THEN [error |-> NoError, mobilizer |-> joint.implementation_.mobilizers_[1]]
  ELSE [error |-> NoError,
        mobilizer |-> [NoMobilizer EXCEPT !.type = "RevoluteMobilizer",
                                          !.tree_dofs = 2]]

\* A mutation of get_mobilizer that demands two mobilizers.
get_mobilizer_two(joint) ==
  LET impl == get_implementation(joint) IN
  IF impl.error # NoError
  THEN [error |-> impl.error, mobilizer |-> NoMobilizer]
  ELSE IF Len(impl.implementation.mobilizers_) # 2
  THEN [error |-> "num_mobilizers", mobilizer |-> NoMobilizer]
  ELSE [error |-> NoError, mobilizer |-> impl.implementation.mobilizers_[1]]

\* get_mobilizer(): the implementation's only mobilizer, as a
\* RevoluteMobilizer.
get_mobilizer(joint) ==
  LET impl == get_implementation(joint) IN
  IF impl.error # NoError
  THEN [error |-> impl.error, mobilizer |-> NoMobilizer]
  ELSE IF Len(impl.implementation.mobilizers_) # 1
  THEN [error |-> "num_mobilizers", mobilizer |-> NoMobilizer]
  ELSE IF impl.implementation.mobilizers_[1].type # "RevoluteMobilizer"
  THEN [error |-> "bad_cast", mobilizer |-> NoMobilizer]
  ELSE [error |-> NoError, mobilizer |-> impl.implementation.mobilizers_[1]]

----------------------------------------------------------------------------
(* RevoluteMobilizer<T>: reads and writes one slot of the caller's container *)

ZeroContext(n) == [q |-> [i \in 1..n |-> 0], v |-> [i \in 1..n |-> 0]]

ZeroForces(n) == [present |-> TRUE, tau |-> [i \in 1..n |-> 0]]

\* The null pointer passed as MultibodyForces<T>*.
NullForces == [present |-> FALSE, tau |-> <<>>]

\* A context fits a mobilizer when it has one position and one velocity per
\* degree of freedom of the mobilizer's tree.
ContextFits(mobilizer, context) ==
  /\ Len(context.q) = mobilizer.tree_dofs
  /\ Len(context.v) = mobilizer.tree_dofs

Mobilizer_get_angle(mobilizer, context) ==
  IF ~ContextFits(mobilizer, context)
  THEN [error |-> "size_mismatch", value |-> 0]
  ELSE [error |-> NoError, value |-> context.q[mobilizer.start + 1]]

Mobilizer_set_angle(mobilizer, context, angle) ==
  IF ~ContextFits(mobilizer, context)
  THEN [error |-> "size_mismatch", context |-> context]
  ELSE [error |-> NoError,
        context |-> [context EXCEPT !.q[mobilizer.start + 1] = angle]]

Mobilizer_get_angular_rate(mobilizer, context) ==
  IF ~ContextFits(mobilizer, context)
  THEN [error |-> "size_mismatch", value |-> 0]
  ELSE [error |-> NoError, value |-> context.v[mobilizer.start + 1]]

Mobilizer_set_angular_rate(mobilizer, context, theta_dot) ==
  IF ~ContextFits(mobilizer, context)
  THEN [error |-> "size_mismatch", context |-> context]
  ELSE [error |-> NoError,
        context |-> [context EXCEPT !.v[mobilizer.start + 1] = theta_dot]]

----------------------------------------------------------------------------
(* RevoluteJoint<T>: context-dependent value access *)

get_angle(joint, context) ==
  LET m == get_mobilizer(joint) IN
  IF m.error # NoError
  THEN [error |-> m.error, value |-> 0]
  ELSE Mobilizer_get_angle(m.mobilizer, context)

\* A mutation of set_angle that forwards to the mobilizer's set_angular_rate.
set_angle_as_rate(joint, context, angle) ==
  LET m == get_mobilizer(joint) IN
  IF m.error # NoError
  THEN [error |-> m.error, context |-> context]
  ELSE Mobilizer_set_angular_rate(m.mobilizer, context, angle)

set_angle(joint, context, angle) ==
  LET m == get_mobilizer(joint) IN
  IF m.error # NoError
  THEN [error |-> m.error, context |-> context]
  ELSE Mobilizer_set_angle(m.mobilizer, context, angle)

get_angular_rate(joint, context) ==
  LET m == get_mobilizer(joint) IN
  IF m.error # NoError
  THEN [error |-> m.error, value |-> 0]
  ELSE Mobilizer_get_angular_rate(m.mobilizer, context)

\* A mutation of set_angular_rate that also overwrites the angle.
set_angular_rate_and_angle(joint, context, angle) ==
  LET m == get_mobilizer(joint) IN
  IF m.error # NoError
  THEN [error |-> m.error, context |-> context]
  ELSE LET r == Mobilizer_set_angular_rate(m.mobilizer, context, angle) IN
       IF r.error # NoError THEN r
       ELSE Mobilizer_set_angle(m.mobilizer, r.context, angle)

set_angular_rate(joint, context, angle) ==
  LET m == get_mobilizer(joint) IN
  IF m.error # NoError
  THEN [error |-> m.error, context |-> context]
  ELSE Mobilizer_set_angular_rate(m.mobilizer, context, angle)

----------------------------------------------------------------------------
(* Force injection *)

RECURSIVE SumDofs(_, _)
\* The degrees of freedom of the first n joints of a tree.
SumDofs(joints, n) ==
  IF n = 0 THEN 0 ELSE SumDofs(joints, n - 1) + do_get_num_dofs(joints[n])

\* MultibodyTree::get_num_velocities(): the sum of the joints' degrees of
\* freedom.
get_num_velocities(tree) == SumDofs(tree.joints, Len(tree.joints))

\* MultibodyForces::CheckHasRightSizeForModel(model).
CheckHasRightSizeForModel(f, tree) == Len(f.tau) = get_num_velocities(tree)

\* A mutation of DoAddInOneForce that assigns the torque to the slot.
DoAddInOneForce_assign(joint, joint_dof, joint_tau, f) ==
  IF joint_dof # 0
  THEN [error |-> "joint_dof", forces |-> f]
  ELSE LET m == get_mobilizer(joint) IN
       IF m.error # NoError
       THEN [error |-> m.error, forces |-> f]
       ELSE [error |-> NoError,
             forces |-> [f EXCEPT !.tau[m.mobilizer.start + 1 + joint_dof] =
                                     joint_tau]]

\* DoAddInOneForce(context, joint_dof, joint_tau, forces): tau_mob is the
\* mobilizer's block of the generalized forces; tau_mob(joint_dof) +=
\* joint_tau.
DoAddInOneForce(joint, joint_dof, joint_tau, f) ==
  IF joint_dof # 0
  THEN [error |-> "joint_dof", forces |-> f]
  ELSE LET m == get_mobilizer(joint) IN
       IF m.error # NoError
       THEN [error |-> m.error, forces |-> f]
       ELSE [error |-> NoError,
             forces |-> [f EXCEPT !.tau[m.mobilizer.start + 1 + joint_dof] =
                                     @ + joint_tau]]

\* Joint::AddInOneForce(context, joint_dof, joint_tau, forces): the public
\* entry that checks joint_dof and calls DoAddInOneForce.
AddInOneForce(joint, joint_dof, joint_tau, f) ==
  IF ~(0 <= joint_dof /\ joint_dof < do_get_num_dofs(joint))
  THEN [error |-> "joint_dof", forces |-> f]
  ELSE DoAddInOneForce(joint, joint_dof, joint_tau, f)

\* A mutation of AddInTorque without the demand on the accumulator's size.
AddInTorque_unsized(joint, tree, torque, f) ==
  IF ~f.present
  THEN [error |-> "forces_null", forces |-> f]
  ELSE AddInOneForce(joint, 0, torque, f)

\* AddInTorque(context, torque, forces).
AddInTorque(joint, tree, torque, f) ==
  IF ~f.present
  THEN [error |-> "forces_null", forces |-> f]
  ELSE IF ~CheckHasRightSizeForModel(f, tree)
  THEN [error |-> "size_mismatch", forces |-> f]
  ELSE AddInOneForce(joint, 0, torque, f)

----------------------------------------------------------------------------
(* MultibodyTree: finalize and scalar conversion *)

\* The implementation Finalize gives joint i of a tree: the mobilizers of
\* the joint's blueprint, placed after the degrees of freedom of the joints
\* before it.
ImplementationOf(tree, i) ==
  LET bp == MakeImplementationBlueprint(tree.joints[i]) IN
  [present |-> TRUE,
   mobilizers_ |->
     [k \in 1..Len(bp.mobilizers_) |->
        [bp.mobilizers_[k] EXCEPT
           !.start = SumDofs(tree.joints, i - 1) + (k - 1),
           !.tree_dofs = get_num_velocities(tree)]]]

\* MultibodyTree::Finalize(): every joint gets its implementation.
Finalized(tree) ==
  [tree EXCEPT
     !.finalized = TRUE,
     !.joints = [i \in 1..Len(tree.joints) |->
                   [tree.joints[i] EXCEPT
                      !.implementation_ = ImplementationOf(tree, i)]]]

\* A mutation of TemplatedDoCloneToScalar that copies the source joint, its
\* implementation included.
TemplatedDoCloneToScalar_copy(joint, tree_clone) ==
  IF \/ joint.frame_on_parent \notin tree_clone.frames
     \/ joint.frame_on_child \notin tree_clone.frames
  THEN [error |-> "missing_frame", joint |-> NoJoint]
  ELSE [error |-> NoError, joint |-> joint]

\* TemplatedDoCloneToScalar(tree_clone): a RevoluteJoint of the target tree
\* with this joint's name and axis data, between the target tree's frames of
\* the same names, and with no implementation.  It fails when the target
\* tree lacks one of the frames.
TemplatedDoCloneToScalar(joint, tree_clone) ==
  IF \/ joint.frame_on_parent \notin tree_clone.frames
     \/ joint.frame_on_child \notin tree_clone.frames
  THEN [error |-> "missing_frame", joint |-> NoJoint]
  ELSE [error |-> NoError,
        joint |-> [name |-> joint.name,
                   frame_on_parent |-> joint.frame_on_parent,
                   frame_on_child |-> joint.frame_on_child,
                   axis_ |-> get_revolute_axis(joint),
                   implementation_ |-> NoImplementation]]

----------------------------------------------------------------------------
(* The calls *)

TreeIds == {"tree", "tree_clone"}

NoCall ==
  [op |-> "none", tree |-> "none", joint |-> 0, target |-> "none",
   container |-> "none", arg |-> 0, axis |-> ZeroVector, value |-> 0,
   blueprint |-> [mobilizers_ |-> <<>>], error |-> NoError]

JointsOf(t) == 1..Len(trees[t].joints)

\* tree.AddJoint<RevoluteJoint>(name, frame_on_parent, frame_on_child, axis)
\* on a tree under assembly: the joint is constructed and, when the
\* constructor returns, appended to the tree.
Construct(t, a) ==
  /\ ~trees[t].finalized
  /\ Len(trees[t].joints) < MaxJoints
  /\ {a.parent, a.child} \subseteq trees[t].frames
  /\ LET r == RevoluteJoint(a.name, a.parent, a.child, a.axis) IN
     /\ trees' = IF r.error = NoError
                 THEN [trees EXCEPT ![t].joints = Append(@, r.joint)]
                 ELSE trees
     /\ last' = [NoCall EXCEPT
                   !.op = "RevoluteJoint", !.tree = t, !.axis = a.axis,
                   !.joint = IF r.error = NoError
                             THEN Len(trees[t].joints) + 1 ELSE 0,
                   !.error = r.error]
  /\ UNCHANGED <<contexts, forces, applied>>

\* tree.Finalize(), once per tree.
Finalize(t) ==
  /\ ~trees[t].finalized
  /\ trees' = [trees EXCEPT ![t] = Finalized(@)]
  /\ last' = [NoCall EXCEPT !.op = "Finalize", !.tree = t]
  /\ UNCHANGED <<contexts, forces, applied>>

Call_MakeImplementationBlueprint(t, j) ==
  /\ j \in JointsOf(t)
  /\ last' = [NoCall EXCEPT
                !.op = "MakeImplementationBlueprint", !.tree = t, !.joint = j,
                !.blueprint = MakeImplementationBlueprint(trees[t].joints[j])]
  /\ UNCHANGED <<trees, contexts, forces, applied>>

\* joint.CloneToScalar(tree_clone) as MultibodyTree::CloneToScalar calls it:
\* for the joints of the source tree in their order, on a target tree under
\* assembly, to which the clone is appended.
Call_DoCloneToScalar(s, j, t) ==
  /\ s # t
  /\ j \in JointsOf(s)
  /\ ~trees[t].finalized
  /\ j = Len(trees[t].joints) + 1
  /\ LET r == TemplatedDoCloneToScalar(trees[s].joints[j], trees[t]) IN
     /\ trees' = IF r.error = NoError
                 THEN [trees EXCEPT ![t].joints = Append(@, r.joint)]
                 ELSE trees
     /\ last' = [NoCall EXCEPT
                   !.op = "DoCloneToScalar", !.tree = s, !.joint = j,
                   !.target = t,
                   !.value = IF r.error = NoError
                             THEN Len(trees[t].joints) + 1 ELSE 0,
                   !.error = r.error]
  /\ UNCHANGED <<contexts, forces, applied>>

Call_get_angle(t, j, c) ==
  /\ j \in JointsOf(t)
  /\ LET r == get_angle(trees[t].joints[j], contexts[c]) IN
     last' = [NoCall EXCEPT
                !.op = "get_angle", !.tree = t, !.joint = j, !.container = c,
                !.value = r.value, !.error = r.error]
  /\ UNCHANGED <<trees, contexts, forces, applied>>

Call_set_angle(t, j, c, angle) ==
  /\ j \in JointsOf(t)
  /\ LET r == set_angle(trees[t].joints[j], contexts[c], angle) IN
     /\ contexts' = [contexts EXCEPT ![c] = r.context]
     /\ last' = [NoCall EXCEPT
                   !.op = "set_angle", !.tree = t, !.joint = j,
                   !.container = c, !.arg = angle, !.error = r.error]
  /\ UNCHANGED <<trees, forces, applied>>

Call_get_angular_rate(t, j, c) ==
  /\ j \in JointsOf(t)
  /\ LET r == get_angular_rate(trees[t].joints[j], contexts[c]) IN
     last' = [NoCall EXCEPT
                !.op = "get_angular_rate", !.tree = t, !.joint = j,
                !.container = c, !.value = r.value, !.error = r.error]
  /\ UNCHANGED <<trees, contexts, forces, applied>>

Call_set_angular_rate(t, j, c, theta_dot) ==
  /\ j \in JointsOf(t)
  /\ LET r == set_angular_rate(trees[t].joints[j], contexts[c], theta_dot) IN
     /\ contexts' = [contexts EXCEPT ![c] = r.context]
     /\ last' = [NoCall EXCEPT
                   !.op = "set_angular_rate", !.tree = t, !.joint = j,
                   !.container = c, !.arg = theta_dot, !.error = r.error]
  /\ UNCHANGED <<trees, forces, applied>>

\* joint.AddInTorque(context, torque, forces); f is an accumulator of the
\* caller or "null", the null pointer.
Call_AddInTorque(t, j, f, torque) ==
  /\ j \in JointsOf(t)
  /\ LET r == AddInTorque(trees[t].joints[j], trees[t], torque,
                          IF f = "null" THEN NullForces ELSE forces[f]) IN
     /\ (f # "null" /\ r.error = NoError) => Len(applied[f]) < MaxCalls
     /\ forces' = IF f = "null" THEN forces
                  ELSE [forces EXCEPT ![f] = r.forces]
     /\ applied' = IF f # "null" /\ r.error = NoError
                   THEN [applied EXCEPT
                           ![f] = Append(@, [tree |-> t, joint |-> j,
                                             torque |-> torque])]
                   ELSE applied
     /\ last' = [NoCall EXCEPT
                   !.op = "AddInTorque", !.tree = t, !.joint = j,
                   !.container = f, !.arg = torque, !.error = r.error]
  /\ UNCHANGED <<trees, contexts>>

\* The caller replaces context c by a zeroed context of n positions and n
\* velocities.
NewContext(c, n) ==
  /\ contexts' = [contexts EXCEPT ![c] = ZeroContext(n)]
  /\ last' = [NoCall EXCEPT !.op = "NewContext", !.container = c, !.arg = n]
  /\ UNCHANGED <<trees, forces, applied>>

\* The caller replaces accumulator f by a zeroed accumulator of n slots.
NewForces(f, n) ==
  /\ forces' = [forces EXCEPT ![f] = ZeroForces(n)]
  /\ applied' = [applied EXCEPT ![f] = <<>>]
  /\ last' = [NoCall EXCEPT !.op = "NewForces", !.container = f, !.arg = n]
  /\ UNCHANGED <<trees, contexts>>

----------------------------------------------------------------------------
(* Specifications *)

Sizes == 0..MaxJoints

EmptyTrees ==
  [t \in TreeIds |->
     [frames |-> IF t = "tree" THEN FrameNames ELSE FrameNames \ {"foot"},
      joints |-> <<>>, finalized |-> FALSE]]

\* The leg: a tree under assembly that holds a hip and a knee.
LegTrees ==
  [EmptyTrees EXCEPT
     !["tree"].joints =
        << RevoluteJoint("hip", "world", "thigh", Vector3(0, 0, 3)).joint,
           RevoluteJoint("knee", "thigh", "shin", Vector3(1, 0, 3)).joint >>]

\* The leg, and a second tree under assembly that holds the clone of the hip.
LegAndCloneTrees ==
  [LegTrees EXCEPT
     !["tree_clone"].joints =
        << TemplatedDoCloneToScalar(LegTrees["tree"].joints[1],
                                    LegTrees["tree_clone"]).joint >>]

\* The size of the containers made for the leg.
LegSize == get_num_velocities(LegTrees["tree"])

\* Contexts cs and accumulators fs, zeroed, of n slots each.
InitContainers(cs, fs, n) ==
  /\ contexts = [c \in cs |-> ZeroContext(n)]
  /\ forces = [f \in fs |-> ZeroForces(n)]
  /\ applied = [f \in fs |-> <<>>]
  /\ last = NoCall

\* Assembly: the joints of two trees are constructed, cloned and finalized,
\* and asked for their blueprints.
Init ==
  /\ trees = EmptyTrees
  /\ InitContainers({"context"}, {"forces"}, 0)

Next ==
  \/ \E a \in JointArgs : Construct("tree", a)
  \/ \E t \in TreeIds : Finalize(t)
  \/ \E t \in TreeIds : \E j \in JointsOf(t) :
       Call_MakeImplementationBlueprint(t, j)
  \/ \E j \in JointsOf("tree") : Call_DoCloneToScalar("tree", j, "tree_clone")

Spec == Init /\ [][Next]_vars

\* Use: the leg is finalized at some point, its joints are cloned into the
\* second tree, and every operation of a joint is called on the joints of
\* both trees with one context and one accumulator made for the leg.
InitOps ==
  /\ trees = LegTrees
  /\ InitContainers({"context"}, {"forces"}, LegSize)

NextOps ==
  \/ \E t \in TreeIds : Finalize(t)
  \/ \E t \in TreeIds : \E j \in JointsOf(t) :
       Call_MakeImplementationBlueprint(t, j)
  \/ \E j \in JointsOf("tree") : Call_DoCloneToScalar("tree", j, "tree_clone")
  \/ \E t \in TreeIds : \E j \in JointsOf(t) : \E c \in DOMAIN contexts :
       Call_get_angle(t, j, c)
  \/ \E t \in TreeIds : \E j \in JointsOf(t) : \E c \in DOMAIN contexts :
       Call_set_angle(t, j, c, 7)
  \/ \E t \in TreeIds : \E j \in JointsOf(t) : \E c \in DOMAIN contexts :
       Call_get_angular_rate(t, j, c)
  \/ \E t \in TreeIds : \E j \in JointsOf(t) : \E c \in DOMAIN contexts :
       Call_set_angular_rate(t, j, c, 7)
  \/ \E t \in TreeIds : \E j \in JointsOf(t) :
       \E f \in DOMAIN forces \cup {"null"} : Call_AddInTorque(t, j, f, 2)
  \/ \E c \in DOMAIN contexts : NewContext(c, LegSize)
  \/ \E f \in DOMAIN forces : NewForces(f, LegSize)

SpecOps == InitOps /\ [][NextOps]_vars

\* State access: the angles and rates of the leg's joints are read and
\* written in two contexts of any size.
InitState ==
  /\ trees = LegTrees
  /\ InitContainers({"context_a", "context_b"}, {"forces"}, 0)

NextState ==
  \/ Finalize("tree")
  \/ \E j \in JointsOf("tree") : \E c \in DOMAIN contexts :
       Call_get_angle("tree", j, c)
  \/ \E j \in JointsOf("tree") : \E c \in DOMAIN contexts : \E x \in Values :
       Call_set_angle("tree", j, c, x)
  \/ \E j \in JointsOf("tree") : \E c \in DOMAIN contexts :
       Call_get_angular_rate("tree", j, c)
  \/ \E j \in JointsOf("tree") : \E c \in DOMAIN contexts : \E x \in Values :
       Call_set_angular_rate("tree", j, c, x)
  \/ \E c \in DOMAIN contexts : \E n \in Sizes : NewContext(c, n)

SpecState == InitState /\ [][NextState]_vars

\* Force injection: torques are added for the leg's joints and for the
\* hip's clone into two accumulators of any size.
InitForce ==
  /\ trees = LegAndCloneTrees
  /\ InitContainers({"context"}, {"forces_a", "forces_b"}, 0)

NextForce ==
  \/ \E t \in TreeIds : Finalize(t)
  \/ \E t \in TreeIds : \E j \in JointsOf(t) :
       \E f \in DOMAIN forces \cup {"null"} : \E x \in Torques :
         Call_AddInTorque(t, j, f, x)
  \/ \E f \in DOMAIN forces : \E n \in Sizes : NewForces(f, n)

SpecForce == InitForce /\ [][NextForce]_vars

\* Evaluation: the finalized or unfinalized leg is used with two contexts
\* and one accumulator made for it, in any interleaving.
InitFrame ==
  /\ trees = LegTrees
  /\ InitContainers({"context_a", "context_b"}, {"forces"}, LegSize)

NextFrame ==
  \/ Finalize("tree")
  \/ \E j \in JointsOf("tree") : \E c \in DOMAIN contexts :
       Call_get_angle("tree", j, c)
  \/ \E j \in JointsOf("tree") : \E c \in DOMAIN contexts :
       Call_set_angle("tree", j, c, 7)
  \/ \E j \in JointsOf("tree") : \E c \in DOMAIN contexts :
       Call_get_angular_rate("tree", j, c)
  \/ \E j \in JointsOf("tree") : \E c \in DOMAIN contexts :
       Call_set_angular_rate("tree", j, c, 7)
  \/ \E j \in JointsOf("tree") : \E f \in DOMAIN forces :
       Call_AddInTorque("tree", j, f, 2)
  \/ \E f \in DOMAIN forces : NewForces(f, LegSize)

SpecFrame == InitFrame /\ [][NextFrame]_vars

----------------------------------------------------------------------------
(* Properties *)

JointAt(t, j) == trees[t].joints[j]

\* No mobilizer was instantiated for the joint.
Unbound(joint) == ~joint.implementation_.present

\* The joint's mobilizer is there for its operations.
Bound(joint) == get_mobilizer(joint).error = NoError

JointCalls ==
  {"get_angle", "set_angle", "get_angular_rate", "set_angular_rate",
   "AddInTorque"}

\* The failures of the two demands AddInTorque makes on its accumulator.
SizeMismatchErrors == {"forces_null", "size_mismatch"}

\* The scalar product and the vector product of the integer vectors a, b.
Dot(a, b) == a[1] * b[1] + a[2] * b[2] + a[3] * b[3]

Cross(a, b) ==
  << a[2] * b[3] - a[3] * b[2], a[3] * b[1] - a[1] * b[3],
     a[1] * b[2] - a[2] * b[1] >>

\* The vector v is finite and shorter than l steps.
ShorterThan(v, l) ==
  /\ IsFinite(v)
  /\ \/ v.scale = "tiny"
     \/ v.scale = "step" /\ Dot(v.num, v.num) < l * l * v.den2

\* The vector v is finite and of length 1.0.
UnitVector(v) ==
  /\ IsFinite(v)
  /\ v.scale = "step"
  /\ Dot(v.num, v.num) = One * One * v.den2

\* The finite vectors u and v are parallel and point the same way.
SameDirection(u, v) ==
  /\ IsFinite(u) /\ IsFinite(v)
  /\ Cross(u.num, v.num) = <<0, 0, 0>>
  /\ Dot(u.num, v.num) > 0

\* The unit vector along (1, 0, 3), the axis of the leg's knee.
KneeAxis ==
  [class |-> <<"finite", "finite", "finite">>, num |-> <<One, 0, 3 * One>>,
   den2 |-> 10, scale |-> "step"]

\* The slot of an accumulator that belongs to the joint of a recorded call.
SlotOf(call) == get_mobilizer(JointAt(call.tree, call.joint)).mobilizer.start + 1

RECURSIVE SumInto(_, _, _)
\* The sum of the torques the first n recorded calls added for slot s.
SumInto(calls, n, s) ==
  IF n = 0 THEN 0
  ELSE SumInto(calls, n - 1, s)
       + (IF SlotOf(calls[n]) = s THEN calls[n].torque ELSE 0)

\* C1: each slot of an accumulator holds the sum of the torques that were
\* added for the joint of that slot since the accumulator was zeroed: two
\* calls with f1 and f2 leave f1 + f2 in the joint's slot, and the slots of
\* the other joints hold what they held before.
C1_TorquesAccumulate ==
  \A f \in DOMAIN forces : \A s \in 1..Len(forces[f].tau) :
    forces[f].tau[s] = SumInto(applied[f], Len(applied[f]), s)

\* Two different torques were added for the hip into a zeroed accumulator of
\* the leg, whose knee slot is still zero.
C1_Witness ==
  \E f \in DOMAIN forces :
    /\ Len(applied[f]) = 2
    /\ applied[f][1].tree = "tree" /\ applied[f][2].tree = "tree"
    /\ applied[f][1].joint = 1 /\ applied[f][2].joint = 1
    /\ applied[f][1].torque # applied[f][2].torque
    /\ forces[f].tau = <<applied[f][1].torque + applied[f][2].torque, 0>>

C2_Original_Step ==
  (/\ last'.op \in JointCalls
   /\ Unbound(JointAt(last'.tree, last'.joint)))
  => /\ last'.error = "unbound_access"
     /\ contexts' = contexts
     /\ forces' = forces

\* C2 as claimed: every operation called on an Unbound joint ends in the
\* unbound-access error and leaves the containers as they were.
C2_Original == [][C2_Original_Step]_vars

C2_Amended_Step ==
  (/\ last'.op \in JointCalls
   /\ Unbound(JointAt(last'.tree, last'.joint)))
  => /\ contexts' = contexts
     /\ forces' = forces
     /\ last'.error =
          IF last'.op = "AddInTorque" /\ last'.container = "null"
          THEN "forces_null"
          ELSE IF /\ last'.op = "AddInTorque"
                  /\ ~CheckHasRightSizeForModel(forces[last'.container],
                                                trees[last'.tree])
          THEN "size_mismatch"
          ELSE "unbound_access"

\* C2, amended: get_angle, set_angle, get_angular_rate and set_angular_rate
\* called on an Unbound joint end in the unbound-access error; AddInTorque
\* called on an Unbound joint ends in the unbound-access error when its
\* accumulator is there and has the right size, and in the failure of the
\* demand on the accumulator otherwise; in every case the containers are
\* left as they were.
C2_UnboundCallsFail == [][C2_Amended_Step]_vars

\* AddInTorque failed on an Unbound joint for want of a mobilizer, with an
\* accumulator and a context that hold values.
C2_Witness ==
  /\ last.op = "AddInTorque"
  /\ last.error = "unbound_access"
  /\ Unbound(JointAt(last.tree, last.joint))
  /\ \E s \in 1..Len(forces[last.container].tau) :
       forces[last.container].tau[s] # 0
  /\ \E c \in DOMAIN contexts : \E s \in 1..Len(contexts[c].q) :
       contexts[c].q[s] # 0

C3_Step ==
  \A t \in TreeIds :
    /\ \A j \in 1..Len(trees'[t].joints) :
         LET was == j <= Len(trees[t].joints) /\ Bound(trees[t].joints[j])
             is == Bound(trees'[t].joints[j])
         IN /\ was => is
            /\ (~was /\ is) => (last'.op = "Finalize" /\ last'.tree = t)
            /\ j > Len(trees[t].joints) => ~is
    /\ (last'.op = "Finalize" /\ last'.tree = t) =>
         \A j \in 1..Len(trees'[t].joints) : Bound(trees'[t].joints[j])
    /\ Len(trees'[t].joints) >= Len(trees[t].joints)

\* C3: a joint that enters a tree is Unbound; a joint becomes Bound in the
\* Finalize of its tree and in no other step; Finalize leaves every joint
\* of its tree Bound; a Bound joint stays Bound and no joint leaves its tree.
C3_OneTransition == [][C3_Step]_vars

\* A call failed on a Bound joint of the finalized leg while the clone tree
\* holds an Unbound clone.
C3_Witness ==
  /\ last.op \in JointCalls
  /\ last.error # NoError
  /\ last.tree = "tree"
  /\ Bound(JointAt(last.tree, last.joint))
  /\ Len(trees["tree_clone"].joints) >= 1
  /\ ~Bound(JointAt("tree_clone", 1))

C4_Step ==
  (/\ last'.op = "AddInTorque"
   /\ \/ last'.container = "null"
      \/ ~CheckHasRightSizeForModel(forces[last'.container],
                                    trees[last'.tree]))
  => /\ last'.error \in SizeMismatchErrors
     /\ forces' = forces
     /\ contexts' = contexts

\* C4: AddInTorque with no accumulator, or with one that has not the size
\* of the joint's tree, fails on the demand on the accumulator and leaves
\* every accumulator as it was.
C4_SizeCheckedFirst == [][C4_Step]_vars

\* AddInTorque failed on the size of an accumulator that holds a torque,
\* called on a Bound joint.
C4_Witness ==
  /\ last.op = "AddInTorque"
  /\ last.error = "size_mismatch"
  /\ Bound(JointAt(last.tree, last.joint))
  /\ \E s \in 1..Len(forces[last.container].tau) :
       forces[last.container].tau[s] # 0

\* C5: right after set_angle(context, x) succeeds, get_angle(context)
\* returns x; right after set_angular_rate(context, x) succeeds,
\* get_angular_rate(context) returns x; and both succeed for every x on a
\* Bound joint with a context of its tree's size.
C5_RoundTrip ==
  LET joint == JointAt(last.tree, last.joint)
      context == contexts[last.container]
  IN /\ (last.op = "set_angle" /\ last.error = NoError) =>
          get_angle(joint, context) = [error |-> NoError, value |-> last.arg]
     /\ (last.op = "set_angular_rate" /\ last.error = NoError) =>
          get_angular_rate(joint, context) =
            [error |-> NoError, value |-> last.arg]
     /\ (/\ last.op \in {"set_angle", "set_angular_rate"}
         /\ Bound(joint)
         /\ ContextFits(get_mobilizer(joint).mobilizer, context)) =>
          last.error = NoError

\* set_angle wrote a negative angle for the knee into a context that holds
\* another rate for the knee.
C5_Witness ==
  /\ last.op = "set_angle"
  /\ last.error = NoError
  /\ last.joint = 2
  /\ last.arg = -1
  /\ contexts[last.container].q[2] = -1
  /\ contexts[last.container].v[2] = 7

C6_Step ==
  (last'.op = "DoCloneToScalar" /\ last'.error = NoError) =>
    LET source == trees[last'.tree].joints[last'.joint]
        target == trees'[last'.target]
        clone == target.joints[last'.value]
    IN /\ last'.value = Len(trees[last'.target].joints) + 1
       /\ clone.name = source.name
       /\ do_get_num_dofs(clone) = do_get_num_dofs(source)
       /\ get_revolute_axis(clone) = get_revolute_axis(source)
       /\ clone.frame_on_parent = source.frame_on_parent
       /\ clone.frame_on_child = source.frame_on_child
       /\ {clone.frame_on_parent, clone.frame_on_child} \subseteq target.frames
       /\ Unbound(clone)
       /\ get_mobilizer(clone).error = "unbound_access"
       /\ trees'[last'.tree] = trees[last'.tree]

\* C6: the joint a successful clone adds to the target tree has the name,
\* the degrees of freedom and the axis of its source, lies between the
\* target tree's frames of the same names, and is Unbound; the source's tree
\* is as it was.
C6_ClonePreserves == [][C6_Step]_vars

\* The knee of the finalized leg was cloned.
C6_Witness ==
  /\ last.op = "DoCloneToScalar"
  /\ last.error = NoError
  /\ trees[last.tree].finalized
  /\ Bound(JointAt(last.tree, last.joint))
  /\ JointAt(last.tree, last.joint).name = "knee"
  /\ JointAt(last.target, last.value).axis_ = KneeAxis

\* The one mobilizer a blueprint of the joint lists.
RevoluteSpecification(joint) ==
  [type |-> "RevoluteMobilizer", F |-> joint.frame_on_parent,
   M |-> joint.frame_on_child, axis |-> joint.axis_,
   start |-> 0, tree_dofs |-> 0]

\* The blueprints of the leg's hip and knee.
LegBlueprints ==
  << [mobilizers_ |->
        << [type |-> "RevoluteMobilizer", F |-> "world", M |-> "thigh",
            axis |-> Vector3(0, 0, One), start |-> 0, tree_dofs |-> 0] >>],
     [mobilizers_ |->
        << [type |-> "RevoluteMobilizer", F |-> "thigh", M |-> "shin",
            axis |-> KneeAxis, start |-> 0, tree_dofs |-> 0] >>] >>

C7_Step ==
  (last'.op = "MakeImplementationBlueprint") =>
    LET joint == trees[last'.tree].joints[last'.joint] IN
    /\ Len(last'.blueprint.mobilizers_) = 1
    /\ last'.blueprint.mobilizers_[1] = RevoluteSpecification(joint)
    /\ last'.tree = "tree" => last'.blueprint = LegBlueprints[last'.joint]
    /\ (/\ last.op = "MakeImplementationBlueprint"
        /\ last.tree = last'.tree
        /\ last.joint = last'.joint) => last'.blueprint = last.blueprint
    /\ trees' = trees
    /\ contexts' = contexts
    /\ forces' = forces

\* C7: every call of MakeImplementationBlueprint returns a blueprint that
\* lists one revolute mobilizer made of the joint's parent frame, child
\* frame and axis; for a joint of the leg it is the same blueprint at every
\* call; the call changes no tree and no container.
C7_BlueprintPure == [][C7_Step]_vars

\* The blueprint of the Bound knee was made after torques and angles were
\* written.
C7_Witness ==
  /\ last.op = "MakeImplementationBlueprint"
  /\ last.tree = "tree"
  /\ last.joint = 2
  /\ Bound(JointAt("tree", 2))
  /\ \E f \in DOMAIN forces : Len(applied[f]) >= 1
  /\ \E c \in DOMAIN contexts : contexts[c].q[2] # 0

C8_Step ==
  /\ (last'.op = "RevoluteJoint" /\ ShorterThan(last'.axis, kEpsilon))
       => (last'.error = "degenerate_axis" /\ trees' = trees)
  /\ (last'.op = "RevoluteJoint" /\ last'.error = NoError) =>
       LET joint == trees'[last'.tree].joints[last'.joint] IN
       SameDirection(get_revolute_axis(joint), last'.axis)
  /\ \A t \in TreeIds : \A j \in 1..Len(trees'[t].joints) :
       UnitVector(get_revolute_axis(trees'[t].joints[j]))

\* C8: the constructor fails on an axis shorter than kEpsilon and adds no
\* joint; an axis it accepts is stored with the direction given and the
\* length 1, so that every joint of every tree has a unit axis.
C8_AxisChecked == [][C8_Step]_vars

C9_Step ==
  \A t \in TreeIds : \A j \in 1..Len(trees'[t].joints) :
    LET joint == trees'[t].joints[j] IN
    /\ do_get_num_dofs(joint) = 1
    /\ ~Unbound(joint) => Len(joint.implementation_.mobilizers_) = 1
    /\ trees'[t].finalized => ~Unbound(joint)
    /\ j <= Len(trees[t].joints) =>
         get_revolute_axis(joint) = get_revolute_axis(trees[t].joints[j])

\* C9: after every step each joint has one degree of freedom, one mobilizer
\* once its tree is finalized, and the axis it had before the step.
C9_ConstructionData == [][C9_Step]_vars

\* The knee is Bound, its clone is Bound in the finalized second tree, and
\* a torque was added.
C9_Witness ==
  /\ trees["tree"].finalized
  /\ trees["tree_clone"].finalized
  /\ \E j \in JointsOf("tree_clone") :
       /\ JointAt("tree_clone", j).axis_ = KneeAxis
       /\ Len(JointAt("tree_clone", j).implementation_.mobilizers_) = 1
  /\ last.op = "AddInTorque"
  /\ last.error = NoError

C10_Step ==
  (/\ last'.op \in {"set_angle", "set_angular_rate"}
   /\ Bound(JointAt(last'.tree, last'.joint)))
  => LET c == last'.container
         slot == get_mobilizer(JointAt(last'.tree, last'.joint)).mobilizer.start + 1
     IN /\ trees' = trees
        /\ forces' = forces
        /\ \A d \in DOMAIN contexts \ {c} : contexts'[d] = contexts[d]
        /\ Len(contexts'[c].q) = Len(contexts[c].q)
        /\ Len(contexts'[c].v) = Len(contexts[c].v)
        /\ \A s \in 1..Len(contexts[c].q) :
             (last'.op = "set_angle" /\ s = slot)
               \/ contexts'[c].q[s] = contexts[c].q[s]
        /\ \A s \in 1..Len(contexts[c].v) :
             (last'.op = "set_angular_rate" /\ s = slot)
               \/ contexts'[c].v[s] = contexts[c].v[s]

\* C10: set_angle on a Bound joint changes at most the joint's position slot
\* of the context it is given, and set_angular_rate at most the joint's
\* velocity slot; the other slots of that context, the other contexts, the
\* accumulators and the trees are as they were.
C10_WritesConfined == [][C10_Step]_vars

\* set_angular_rate wrote the hip's rate into a context whose hip angle and
\* knee rate are zero, while the other context and the accumulator hold
\* values.
C10_Witness ==
  /\ last.op = "set_angular_rate"
  /\ last.error = NoError
  /\ last.joint = 1
  /\ contexts[last.container].v = <<7, 0>>
  /\ contexts[last.container].q = <<0, 7>>
  /\ \E d \in DOMAIN contexts \ {last.container} : contexts[d].q[1] # 0
  /\ \E f \in DOMAIN forces : forces[f].tau # <<0, 0>>

====
